---- MODULE Spec2Model ----
(***************************************************************************)
(* A model of the certify proxy's issuer configuration types               *)
(* (cmd/proxy/internal/envtypes/issuer.go) and of the Vault issuer's wire  *)
(* types (issuers/vault/types.go).                                         *)
(*                                                                         *)
(* Text is modelled as a sequence of one-character strings, so that        *)
(* lower-casing, joining, splitting and quoting are computed and not       *)
(* assumed.                                                                *)
(***************************************************************************)
EXTENDS Integers, Sequences, FiniteSets, TLC

VARIABLES
    i,            \* the Issuer variable UnmarshalText writes through (*i)
    issuerIn,     \* the last text handed to Issuer.UnmarshalText
    issuerErr,    \* the error the last Issuer.UnmarshalText returned
    issuerCalled, \* whether Issuer.UnmarshalText has been called
    lastOk,       \* history: whether a call returned nil, and i after the last one
    am,           \* Vault.AuthMethod, written by AuthMethod.UnmarshalText (*am)
    amIn,         \* the last text handed to AuthMethod.UnmarshalText
    amErr,        \* the error the last AuthMethod.UnmarshalText returned
    amCalled,     \* whether AuthMethod.UnmarshalText has been called
    amBefore,     \* history: the value of am when the last call started
    conf,         \* the other fields of the Vault configuration struct
    built,        \* the outcome of constructing the Vault issuer from conf
    issued,       \* the number of Issue calls served by the constructed issuer
    sans,         \* an otherSans value: a sequence of SAN strings
    sansBytes,    \* what otherSans.MarshalJSON returned for sans
    sansField,    \* the uri_sans / other_sans member of the marshalled csrOpts
    sansBack,     \* what the receiver reads back from sansBytes
    sansStep,     \* which of the above have been computed
    dur,          \* a ttl value: a time.Duration
    ttlBytes,     \* what ttl.MarshalJSON returned for dur
    ttlErr,       \* the error ttl.MarshalJSON returned
    ttlField,     \* the ttl member of the marshalled csrOpts
    ttlStep,      \* which of the above have been computed
    constTok,     \* a ConstantToken value c
    constTok0,    \* history: the value of c at the start
    cliToken,     \* the token of the api.Client handed to SetToken
    pc,           \* where each goroutine calling c.SetToken stands
    ret,          \* what c.SetToken last returned to each goroutine
    everSet,      \* history: whether some SetToken call has set the token
    now,          \* the clock
    session,      \* the renewing token's live credential: version and expiry
    nextAttempt,  \* when the renewal loop next attempts a renewal
    failures,     \* history: the number of failed renewal attempts
    everRenewed,  \* history: whether a renewal attempt has succeeded
    cancelled,    \* whether the renewal loop's context is cancelled
    lastCall      \* history: the last SetToken call on the renewing token

envVars == <<i, issuerIn, issuerErr, issuerCalled, lastOk>>
authVars == <<am, amIn, amErr, amCalled, amBefore, conf, built, issued>>
sansVars == <<sans, sansBytes, sansField, sansBack, sansStep>>
ttlVars == <<dur, ttlBytes, ttlErr, ttlField, ttlStep>>
constVars == <<constTok, constTok0, cliToken, pc, ret, everSet>>
renewVars == <<now, session, nextAttempt, failures, everRenewed, cancelled, lastCall>>

----------------------------------------------------------------------------
(* Bounds of the model *)

\* How many letters of a word the enumerated inputs write in upper case
\* (the all-upper-case spelling is always included).
MaxUpper == 1

\* How many Issue calls a constructed issuer serves in the model.
MaxIssue == 2

\* The longest SAN string and the longest SAN sequence enumerated.
MaxSanLen == 1
MaxSans == 2

\* The hours of the enumerated durations run from 0 to MaxHours (24 and 720,
\* the documented defaults, are always included).
MaxHours == 2

\* The goroutines that call ConstantToken.SetToken on one client.
NumCallers == 3

\* The renewing token's configuration, in ticks of the model's clock
\* (TokenRenewBefore < TokenTimeToLive), the renewal loop's backoff after a
\* failed attempt, and the last tick of the clock.
TokenTimeToLive == 4
TokenRenewBefore == 2
Backoff == 1
MaxTime == 7

----------------------------------------------------------------------------
(* Text *)

UpperLetters ==
    <<"A","B","C","D","E","F","G","H","I","J","K","L","M",
      "N","O","P","Q","R","S","T","U","V","W","X","Y","Z">>

LowerLetters ==
    <<"a","b","c","d","e","f","g","h","i","j","k","l","m",
      "n","o","p","q","r","s","t","u","v","w","x","y","z">>

\* unicode.ToLower on one character.
ToLowerId(c) == c

LowerOf ==
    [c \in {UpperLetters[k] : k \in 1..26} |->
        LowerLetters[CHOOSE k \in 1..26 : UpperLetters[k] = c]]

ToLowerChar(c) == IF c \in DOMAIN LowerOf THEN LowerOf[c] ELSE c

\* strings.ToLower
ToLower(s) == [k \in 1..Len(s) |-> ToLowerChar(s[k])]

\* The upper-case spelling of one character; used only to enumerate inputs.
ToUpperChar(c) ==
    IF \E k \in 1..26 : LowerLetters[k] = c
    THEN UpperLetters[CHOOSE k \in 1..26 : LowerLetters[k] = c]
    ELSE c

\* The word w with the positions in m written in upper case.
Mix(w, m) == [k \in 1..Len(w) |-> IF k \in m THEN ToUpperChar(w[k]) ELSE w[k]]

Masks(w) ==
    {m \in SUBSET (1..Len(w)) : Cardinality(m) <= MaxUpper \/ m = 1..Len(w)}

\* The inputs spelled from a set of lower-case words: the word an input was
\* spelled from is kept beside its text.
Spellings(words) ==
    UNION {{[word |-> w, text |-> Mix(w, m)] : m \in Masks(w)} : w \in words}

NoInput == [word |-> <<>>, text |-> <<>>]

----------------------------------------------------------------------------
(* cmd/proxy/internal/envtypes/issuer.go: Issuer *)

VaultIssuer == 0
CFSSLIssuer == 1
AWSIssuer == 2

Nil == <<>>

W_vault == <<"v","a","u","l","t">>
W_hashicorp == <<"h","a","s","h","i","c","o","r","p">>
W_cfssl == <<"c","f","s","s","l">>
W_cloudflare == <<"c","l","o","u","d","f","l","a","r","e">>
W_aws == <<"a","w","s">>
W_amazon == <<"a","m","a","z","o","n">>
W_acmpca == <<"a","c","m","p","c","a">>
W_awscmpca == <<"a","w","s","c","m","p","c","a">>

\* errors.New(`invalid issuer specified, supported issuers are "vault", "cfssl" and "aws"`),
\* cut into its fragments.
ErrInvalidIssuer ==
    <<"invalid issuer specified, supported issuers are ",
      "\"vault\"", ", ", "\"cfssl\"", " and ", "\"aws\"">>

\* The result of Issuer.UnmarshalText(in) on *i = cur: the new *i and the error.
IssuerUnmarshalDefaultsToVault(cur, in) ==
    LET s == ToLower(in) IN
    CASE s \in {W_vault, W_hashicorp} -> [val |-> VaultIssuer, err |-> Nil]
      [] s \in {W_cfssl, W_cloudflare} -> [val |-> CFSSLIssuer, err |-> Nil]
      [] s \in {W_aws, W_amazon, W_acmpca, W_awscmpca} -> [val |-> AWSIssuer, err |-> Nil]
      [] OTHER -> [val |-> VaultIssuer, err |-> ErrInvalidIssuer]

IssuerUnmarshal(cur, in) ==
    LET s == ToLower(in) IN
    CASE s \in {W_vault, W_hashicorp} -> [val |-> VaultIssuer, err |-> Nil]
      [] s \in {W_cfssl, W_cloudflare} -> [val |-> CFSSLIssuer, err |-> Nil]
      [] s \in {W_aws, W_amazon, W_acmpca, W_awscmpca} -> [val |-> AWSIssuer, err |-> Nil]
      [] OTHER -> [val |-> cur, err |-> ErrInvalidIssuer]

IssuerAliases ==
    {W_vault, W_hashicorp, W_cfssl, W_cloudflare, W_aws, W_amazon, W_acmpca, W_awscmpca}

\* Words that are no issuer alias: the empty text, near misses, an auth method.
IssuerOthers ==
    {<<>>, <<"g","c","p">>, <<"v","a","u","l","t","s">>, <<"v","a","u","l">>,
     <<" ","a","w","s">>, <<"c","f","s","s","l","\n">>, <<"t","o","k","e","n">>,
     <<"a","w","s","-","p","c","a">>}

IssuerInputs == Spellings(IssuerAliases \cup IssuerOthers)

InitIssuer ==
    /\ i = VaultIssuer          \* the zero value of Issuer
    /\ issuerIn = NoInput
    /\ issuerErr = Nil
    /\ issuerCalled = FALSE
    /\ lastOk = [any |-> FALSE, val |-> VaultIssuer]

\* (i *Issuer).UnmarshalText(in)
IssuerUnmarshalText(inp) ==
    LET r == IssuerUnmarshal(i, inp.text) IN
    /\ i' = r.val
    /\ issuerErr' = r.err
    /\ issuerIn' = inp
    /\ issuerCalled' = TRUE
    /\ lastOk' = IF r.err = Nil THEN [any |-> TRUE, val |-> r.val] ELSE lastOk

----------------------------------------------------------------------------
(* cmd/proxy/internal/envtypes/issuer.go: AuthMethod *)

UnknownAuthMethod == 0
ConstantTokenAuthMethod == 1
RenewingTokenAuthMethod == 2

W_constant == <<"c","o","n","s","t","a","n","t">>
W_token == <<"t","o","k","e","n">>
W_constant_token == <<"c","o","n","s","t","a","n","t","_","t","o","k","e","n">>
W_renewing == <<"r","e","n","e","w","i","n","g">>
W_renewing_token == <<"r","e","n","e","w","i","n","g","_","t","o","k","e","n">>

\* The result of AuthMethod.UnmarshalText(in) on *am = cur.
AuthUnmarshalKeepsOnUnknown(cur, in) ==
    LET s == ToLower(in) IN
    CASE s \in {W_constant, W_token, W_constant_token} ->
             [val |-> ConstantTokenAuthMethod, err |-> Nil]
      [] s \in {W_renewing, W_renewing_token} ->
             [val |-> RenewingTokenAuthMethod, err |-> Nil]
      [] OTHER -> [val |-> cur, err |-> Nil]

AuthUnmarshal(cur, in) ==
    LET s == ToLower(in) IN
    CASE s \in {W_constant, W_token, W_constant_token} ->
             [val |-> ConstantTokenAuthMethod, err |-> Nil]
      [] s \in {W_renewing, W_renewing_token} ->
             [val |-> RenewingTokenAuthMethod, err |-> Nil]
      [] OTHER -> [val |-> UnknownAuthMethod, err |-> Nil]

AuthAliases ==
    {W_constant, W_token, W_constant_token, W_renewing, W_renewing_token}

\* Words that are no auth method alias.
AuthOthers ==
    {<<>>, <<"n","o","n","e">>, <<"u","n","k","n","o","w","n">>,
     <<"t","o","k","e","n","s">>, <<"r","e","n","e","w">>,
     <<"c","o","n","s","t">>, <<"v","a","u","l","t">>}

AuthInputs == Spellings(AuthAliases \cup AuthOthers)

\* The defaults of AuthMethodRenewingToken's durations, in minutes.
DefaultRenewBefore == 30
DefaultTimeToLive == 1440

\* The fields of the Vault struct that construction reads besides AuthMethod:
\* the defaults with a role, the same with the deprecated Token set, one
\* without a role, and one whose RenewBefore is not below its TimeToLive.
DefaultConf ==
    [Token |-> "", Role |-> "web",
     RenewBefore |-> DefaultRenewBefore, TimeToLive |-> DefaultTimeToLive]

VaultConfs ==
    {DefaultConf,
     [DefaultConf EXCEPT !.Token = "s.deprecated"],
     [DefaultConf EXCEPT !.Role = ""],
     [DefaultConf EXCEPT !.RenewBefore = DefaultTimeToLive]}

\* Construction of the Vault issuer from its configuration: the outcome.
NewVaultIssuerTokenFallback(method, c) ==
    IF method = UnknownAuthMethod /\ c.Token = "" THEN "ConfigurationError"
    ELSE IF c.Role = "" THEN "ConfigurationError"
    ELSE IF method = RenewingTokenAuthMethod /\ c.RenewBefore >= c.TimeToLive
         THEN "ConfigurationError"
    ELSE "issuer"

NewVaultIssuer(method, c) ==
    IF method = UnknownAuthMethod THEN "ConfigurationError"
    ELSE IF c.Role = "" THEN "ConfigurationError"
    ELSE IF method = RenewingTokenAuthMethod /\ c.RenewBefore >= c.TimeToLive
         THEN "ConfigurationError"
    ELSE "issuer"

InitAuth ==
    /\ am = UnknownAuthMethod   \* the zero value of AuthMethod
    /\ amIn = NoInput
    /\ amErr = Nil
    /\ amCalled = FALSE
    /\ amBefore = UnknownAuthMethod
    /\ conf \in VaultConfs
    /\ built = "unbuilt"
    /\ issued = 0

\* The parked configuration of the specifications that do not construct an issuer.
IdleAuth ==
    /\ InitAuth
    /\ conf = DefaultConf

\* (am *AuthMethod).UnmarshalText(in), while the configuration is being read.
AuthUnmarshalText(inp) ==
    LET r == AuthUnmarshal(am, inp.text) IN
    /\ built = "unbuilt"
    /\ am' = r.val
    /\ amErr' = r.err
    /\ amIn' = inp
    /\ amCalled' = TRUE
    /\ amBefore' = am
    /\ UNCHANGED <<conf, built, issued>>

\* The issuer is constructed once from the configuration read.
Construct ==
    /\ built = "unbuilt"
    /\ built' = NewVaultIssuer(am, conf)
    /\ UNCHANGED <<am, amIn, amErr, amCalled, amBefore, conf, issued>>

\* An Issue call: only a constructed issuer serves it.
Issue ==
    /\ built = "issuer"
    /\ issued < MaxIssue
    /\ issued' = issued + 1
    /\ UNCHANGED <<am, amIn, amErr, amCalled, amBefore, conf, built>>

----------------------------------------------------------------------------
(* issuers/vault/types.go: otherSans *)

Quote == "\""
Backslash == "\\"
Comma == ","

\* The characters SAN strings are spelled from: two letters, the separator,
\* the JSON delimiter and the JSON escape character.
SanChars == {"a", "b", Comma, Quote, Backslash}

SeqsUpTo(S, n) == UNION {[1..k -> S] : k \in 0..n}

SanStrings == SeqsUpTo(SanChars, MaxSanLen)

SanSeqs == SeqsUpTo(SanStrings, MaxSans)

\* strings.Join(elems, sep), sep one character
RECURSIVE Join(_, _)
Join(elems, sep) ==
    IF Len(elems) = 0 THEN <<>>
    ELSE IF Len(elems) = 1 THEN elems[1]
    ELSE elems[1] \o <<sep>> \o Join(Tail(elems), sep)

\* otherSans.MarshalJSON: the bytes returned (the error is always nil).
MarshalSansSpaceJoined(o) == <<Quote>> \o Join(o, " ") \o <<Quote>>

MarshalSans(o) == <<Quote>> \o Join(o, Comma) \o <<Quote>>

\* A member of csrOpts that encoding/json left out of the object.
Omitted == <<"omitted">>

\* encoding/json on a csrOpts member of type otherSans tagged omitempty: a
\* sequence of length 0 is left out before its MarshalJSON is consulted.
SansMemberNoOmitEmpty(o) == MarshalSans(o)

SansMember(o) == IF Len(o) = 0 THEN Omitted ELSE MarshalSans(o)

\* strings.Split(s, sep), sep one character: the receiver's reading of a
\* comma-delimited list.
RECURSIVE Split(_, _)
Split(s, sep) ==
    IF \E k \in 1..Len(s) : s[k] = sep
    THEN LET k == CHOOSE j \in 1..Len(s) :
                      s[j] = sep /\ \A l \in 1..(j - 1) : s[l] # sep
         IN <<SubSeq(s, 1, k - 1)>> \o Split(SubSeq(s, k + 1, Len(s)), sep)
    ELSE <<s>>

\* The text between the first and the last byte of b.
Inner(b) == SubSeq(b, 2, Len(b) - 1)

\* The JSON grammar of a string literal. Characters a backslash may precede
\* (u must be followed by four hexadecimal digits).
JSONEscapes == {Quote, Backslash, "/", "b", "f", "n", "r", "t"}
JSONControl == {"\n", "\t", "\r", "\f"}
HexDigits == {"0","1","2","3","4","5","6","7","8","9",
              "a","b","c","d","e","f","A","B","C","D","E","F"}

\* The position of the quote that closes the literal opened before position
\* k of b, or 0 when the literal is malformed or never closed.
RECURSIVE ScanString(_, _)
ScanString(b, k) ==
    IF k > Len(b) THEN 0
    ELSE IF b[k] = Quote THEN k
    ELSE IF b[k] \in JSONControl THEN 0
    ELSE IF b[k] = Backslash
         THEN IF k + 1 <= Len(b) /\ b[k + 1] \in JSONEscapes
              THEN ScanString(b, k + 2)
              ELSE IF /\ k + 5 <= Len(b)
                      /\ b[k + 1] = "u"
                      /\ \A l \in (k + 2)..(k + 5) : b[l] \in HexDigits
                   THEN ScanString(b, k + 6)
                   ELSE 0
    ELSE ScanString(b, k + 1)

\* b is exactly one JSON string literal: it opens with a quote and the quote
\* that closes it is its last byte.
IsJSONString(b) ==
    /\ Len(b) >= 2
    /\ b[1] = Quote
    /\ ScanString(b, 2) = Len(b)

\* The character an escape sequence \c stands for.
Unescape(c) ==
    CASE c = "n" -> "\n"
      [] c = "t" -> "\t"
      [] c = "r" -> "\r"
      [] c = "f" -> "\f"
      [] c = "b" -> "<BS>"
      [] OTHER -> c

\* The content of the JSON string literal b from position k on.
RECURSIVE DecodeFrom(_, _)
DecodeFrom(b, k) ==
    IF k > Len(b) \/ b[k] = Quote THEN <<>>
    ELSE IF b[k] = Backslash /\ k + 1 <= Len(b)
         THEN IF b[k + 1] = "u"
              THEN <<"<U>">> \o DecodeFrom(b, k + 6)
              ELSE <<Unescape(b[k + 1])>> \o DecodeFrom(b, k + 2)
    ELSE <<b[k]>> \o DecodeFrom(b, k + 1)

JSONContent(b) == DecodeFrom(b, 2)

InitSans ==
    /\ sans \in SanSeqs
    /\ sansBytes = <<>>
    /\ sansField = <<>>
    /\ sansBack = <<>>
    /\ sansStep = {}

IdleSans == InitSans /\ sans = <<>>

\* o.MarshalJSON()
SansMarshalJSON ==
    /\ "marshal" \notin sansStep
    /\ sansBytes' = MarshalSans(sans)
    /\ sansStep' = sansStep \cup {"marshal"}
    /\ UNCHANGED <<sans, sansField, sansBack>>

\* json.Marshal of a csrOpts whose URISans or OtherSans member is sans
SansMarshalMember ==
    /\ "member" \notin sansStep
    /\ sansField' = SansMember(sans)
    /\ sansStep' = sansStep \cup {"member"}
    /\ UNCHANGED <<sans, sansBytes, sansBack>>

\* The receiver splits what MarshalJSON wrote between the quotes on commas.
SansSplit ==
    /\ "marshal" \in sansStep
    /\ "split" \notin sansStep
    /\ sansBack' = Split(Inner(sansBytes), Comma)
    /\ sansStep' = sansStep \cup {"split"}
    /\ UNCHANGED <<sans, sansBytes, sansField>>

----------------------------------------------------------------------------
(* issuers/vault/types.go: ttl *)

\* A time.Duration is a signed 64-bit count of nanoseconds. It is kept here
\* as its sign, its whole seconds and the nanoseconds below one second
\* (0..999999999), so that no number of the model leaves 32 bits: the low
\* nine decimal digits of the count are those of nsec, and the count divided
\* by 10^9 is sec.
Digits == <<"0","1","2","3","4","5","6","7","8","9">>

\* time.fmtInt: v in decimal, written from its last digit backwards.
RECURSIVE FmtIntLoop(_)
FmtIntLoop(v) ==
    IF v = 0 THEN <<>> ELSE FmtIntLoop(v \div 10) \o <<Digits[(v % 10) + 1]>>

FmtIntEmptyZero(v) == FmtIntLoop(v)

FmtInt(v) == IF v = 0 THEN <<"0">> ELSE FmtIntLoop(v)

\* time.fmtFrac: the fraction v/10^prec without its trailing zeros (and
\* without the point when it is 0), and v/10^prec.
RECURSIVE FmtFracLoop(_, _, _, _)
FmtFracLoop(v, k, print, acc) ==
    IF k = 0
    THEN [str |-> IF print THEN <<".">> \o acc ELSE acc, v |-> v]
    ELSE LET digit == v % 10
             p == print \/ digit # 0
         IN FmtFracLoop(v \div 10, k - 1, p,
                        IF p THEN <<Digits[digit + 1]>> \o acc ELSE acc)

FmtFrac(v, prec) == FmtFracLoop(v, prec, FALSE, <<>>)

\* time.Duration.String
DurationString(d) ==
    LET body ==
          IF d.sec = 0
          THEN \* smaller than a second: use smaller units, like 1.2ms
               IF d.nsec = 0 THEN <<"0", "s">>
               ELSE LET prec == IF d.nsec < 1000 THEN 0
                                ELSE IF d.nsec < 1000000 THEN 3 ELSE 6
                        unit == IF d.nsec < 1000 THEN <<"n", "s">>
                                ELSE IF d.nsec < 1000000 THEN <<"<MICRO>", "s">>
                                ELSE <<"m", "s">>
                        f == FmtFrac(d.nsec, prec)
                    IN FmtInt(f.v) \o f.str \o unit
          ELSE LET f == FmtFrac(d.nsec, 9)
                   u == d.sec                  \* integer seconds
                   mins == u \div 60           \* integer minutes
                   hours == mins \div 60       \* integer hours
                   secPart == FmtInt(u % 60) \o f.str \o <<"s">>
                   minPart == IF mins > 0 THEN FmtInt(mins % 60) \o <<"m">> ELSE <<>>
                   hourPart == IF hours > 0 THEN FmtInt(hours) \o <<"h">> ELSE <<>>
               IN hourPart \o minPart \o secPart
    IN IF d.neg THEN <<"-">> \o body ELSE body

\* ttl.MarshalJSON: the bytes returned (the error is always nil).
MarshalTtl(t) == <<Quote>> \o DurationString(t) \o <<Quote>>

\* encoding/json on the csrOpts member TimeToLive, tagged omitempty: the
\* zero duration is left out.
TtlMember(t) == IF t.sec = 0 /\ t.nsec = 0 THEN Omitted ELSE MarshalTtl(t)

DurHours == (0..MaxHours) \cup {24, 720}

Durations ==
    {[neg |-> n, sec |-> h * 3600 + m * 60 + s, nsec |-> f] :
        n \in BOOLEAN, h \in DurHours, m \in {0, 1, 59}, s \in {0, 1, 59},
        f \in {0, 1, 1500, 2000000, 500000000}}
    \ {[neg |-> TRUE, sec |-> 0, nsec |-> 0]}

InitTtl ==
    /\ dur \in Durations
    /\ ttlBytes = <<>>
    /\ ttlErr = <<"unset">>
    /\ ttlField = <<>>
    /\ ttlStep = {}

IdleTtl == InitTtl /\ dur = [neg |-> FALSE, sec |-> 0, nsec |-> 0]

\* t.MarshalJSON()
TtlMarshalJSON ==
    /\ "marshal" \notin ttlStep
    /\ ttlBytes' = MarshalTtl(dur)
    /\ ttlErr' = Nil
    /\ ttlStep' = ttlStep \cup {"marshal"}
    /\ UNCHANGED <<dur, ttlField>>

\* json.Marshal of a csrOpts whose TimeToLive member is dur
TtlMarshalMember ==
    /\ "member" \notin ttlStep
    /\ ttlField' = TtlMember(dur)
    /\ ttlStep' = ttlStep \cup {"member"}
    /\ UNCHANGED <<dur, ttlBytes, ttlErr>>

----------------------------------------------------------------------------
(* issuers/vault/types.go: ConstantToken *)

Callers == 1..NumCallers

\* What cli.SetToken(v) leaves in the client's token.
ClientTokenDropped(v) == ""

ClientTokenAfterSet(v) == v

InitConst ==
    /\ constTok \in {"", "s.root", "s.app"}
    /\ constTok0 = constTok
    /\ cliToken \in {"", "s.old"}
    /\ pc = [g \in Callers |-> "idle"]
    /\ ret = [g \in Callers |-> "none"]
    /\ everSet = FALSE

IdleConst == InitConst /\ constTok = "" /\ cliToken = ""

\* A goroutine calls c.SetToken(ctx, cli).
ConstCall(g) ==
    /\ pc[g] = "idle"
    /\ pc' = [pc EXCEPT ![g] = "called"]
    /\ ret' = [ret EXCEPT ![g] = "none"]
    /\ UNCHANGED <<constTok, constTok0, cliToken, everSet>>

\* cli.SetToken(string(c))
ConstSet(g) ==
    /\ pc[g] = "called"
    /\ cliToken' = ClientTokenAfterSet(constTok)
    /\ everSet' = TRUE
    /\ pc' = [pc EXCEPT ![g] = "set"]
    /\ UNCHANGED <<constTok, constTok0, ret>>

\* return nil
ConstReturn(g) ==
    /\ pc[g] = "set"
    /\ ret' = [ret EXCEPT ![g] = "nil"]
    /\ pc' = [pc EXCEPT ![g] = "idle"]
    /\ UNCHANGED <<constTok, constTok0, cliToken, everSet>>

----------------------------------------------------------------------------
(* The renewing token of the Vault issuer, configured by                   *)
(* Vault.AuthMethodRenewingToken {Initial, RenewBefore, TimeToLive} and    *)
(* used through vault.AuthMethod.SetToken. Its implementation is not among *)
(* the sources; it is modelled from the specification's Credential         *)
(* Providers section. Time is counted in ticks.                            *)

NoSession == [ver |-> 0, expiry |-> 0]

NoCall == [at |-> 0, result |-> "none", ver |-> 0, expiry |-> 0]

\* The outcome of SetToken at time t on a session that exists.
EnsureOutcomeIgnoresExpiry(sess, t) == "ok"

EnsureOutcome(sess, t) == IF t < sess.expiry THEN "ok" ELSE "AuthorizationError"

InitRenew ==
    /\ now = 0
    /\ session = NoSession
    /\ nextAttempt = 0
    /\ failures = 0
    /\ everRenewed = FALSE
    /\ cancelled = FALSE
    /\ lastCall = NoCall

IdleRenew == InitRenew

\* SetToken (EnsureAuthorized). The first use authenticates with the initial
\* token, which the backend accepts or rejects; later uses hand out the
\* session's credential while it has not expired.
RenewingSetToken(accepted) ==
    /\ IF session.ver = 0
       THEN IF accepted
            THEN LET s == [ver |-> 1, expiry |-> now + TokenTimeToLive] IN
                 /\ session' = s
                 /\ nextAttempt' = s.expiry - TokenRenewBefore
                 /\ lastCall' = [at |-> now, result |-> "ok",
                                 ver |-> s.ver, expiry |-> s.expiry]
            ELSE /\ lastCall' = [at |-> now, result |-> "AuthorizationError",
                                 ver |-> 0, expiry |-> 0]
                 /\ UNCHANGED <<session, nextAttempt>>
       ELSE /\ lastCall' = [at |-> now, result |-> EnsureOutcome(session, now),
                            ver |-> session.ver, expiry |-> session.expiry]
            /\ UNCHANGED <<session, nextAttempt>>
    /\ UNCHANGED <<now, failures, everRenewed, cancelled>>

\* The renewal loop wakes at expiry - RenewBefore and its attempt succeeds:
\* the session is replaced as a whole.
RenewSucceeds ==
    /\ session.ver > 0
    /\ ~cancelled
    /\ now >= nextAttempt
    /\ now < session.expiry
    /\ session' = [ver |-> session.ver + 1, expiry |-> now + TokenTimeToLive]
    /\ nextAttempt' = now + TokenTimeToLive - TokenRenewBefore
    /\ everRenewed' = TRUE
    /\ UNCHANGED <<now, failures, cancelled, lastCall>>

\* The attempt fails: the session is kept and the loop retries after a backoff.
RenewFails ==
    /\ session.ver > 0
    /\ ~cancelled
    /\ now >= nextAttempt
    /\ nextAttempt' = now + Backoff
    /\ failures' = failures + 1
    /\ UNCHANGED <<now, session, everRenewed, cancelled, lastCall>>

\* The loop's context is cancelled: no further attempts.
RenewCancel ==
    /\ ~cancelled
    /\ cancelled' = TRUE
    /\ UNCHANGED <<now, session, nextAttempt, failures, everRenewed, lastCall>>

Tick ==
    /\ now < MaxTime
    /\ now' = now + 1
    /\ UNCHANGED <<session, nextAttempt, failures, everRenewed, cancelled, lastCall>>

----------------------------------------------------------------------------------------------------------------------------------------
(* Specifications: one per component; the other components stay parked. *)

vars == <<envVars, authVars, sansVars, ttlVars, constVars, renewVars>>

InitSpecIssuer ==
    InitIssuer /\ IdleAuth /\ IdleSans /\ IdleTtl /\ IdleConst /\ IdleRenew

NextIssuer ==
    \E inp \in IssuerInputs :
        /\ IssuerUnmarshalText(inp)
        /\ UNCHANGED <<authVars, sansVars, ttlVars, constVars, renewVars>>

SpecIssuer == InitSpecIssuer /\ [][NextIssuer]_vars

InitSpecAuth ==
    InitIssuer /\ InitAuth /\ IdleSans /\ IdleTtl /\ IdleConst /\ IdleRenew

OnlyAuth == UNCHANGED <<envVars, sansVars, ttlVars, constVars, renewVars>>

NextAuth ==
    \/ \E inp \in AuthInputs : AuthUnmarshalText(inp) /\ OnlyAuth
    \/ Construct /\ OnlyAuth
    \/ Issue /\ OnlyAuth

SpecAuth == InitSpecAuth /\ [][NextAuth]_vars

InitSpecSans ==
    InitIssuer /\ IdleAuth /\ InitSans /\ IdleTtl /\ IdleConst /\ IdleRenew

OnlySans == UNCHANGED <<envVars, authVars, ttlVars, constVars, renewVars>>

NextSans ==
    \/ SansMarshalJSON /\ OnlySans
    \/ SansMarshalMember /\ OnlySans
    \/ SansSplit /\ OnlySans

SpecSans == InitSpecSans /\ [][NextSans]_vars

InitSpecTtl ==
    InitIssuer /\ IdleAuth /\ IdleSans /\ InitTtl /\ IdleConst /\ IdleRenew

OnlyTtl == UNCHANGED <<envVars, authVars, sansVars, constVars, renewVars>>

NextTtl ==
    \/ TtlMarshalJSON /\ OnlyTtl
    \/ TtlMarshalMember /\ OnlyTtl

SpecTtl == InitSpecTtl /\ [][NextTtl]_vars

InitSpecConst ==
    InitIssuer /\ IdleAuth /\ IdleSans /\ IdleTtl /\ InitConst /\ IdleRenew

OnlyConst == UNCHANGED <<envVars, authVars, sansVars, ttlVars, renewVars>>

NextConst ==
    \E g \in Callers :
        \/ ConstCall(g) /\ OnlyConst
        \/ ConstSet(g) /\ OnlyConst
        \/ ConstReturn(g) /\ OnlyConst

SpecConst == InitSpecConst /\ [][NextConst]_vars

InitSpecRenew ==
    InitIssuer /\ IdleAuth /\ IdleSans /\ IdleTtl /\ IdleConst /\ InitRenew

OnlyRenew == UNCHANGED <<envVars, authVars, sansVars, ttlVars, constVars>>

NextRenew ==
    \/ \E accepted \in BOOLEAN : RenewingSetToken(accepted) /\ OnlyRenew
    \/ RenewSucceeds /\ OnlyRenew
    \/ RenewFails /\ OnlyRenew
    \/ RenewCancel /\ OnlyRenew
    \/ Tick /\ OnlyRenew

SpecRenew == InitSpecRenew /\ [][NextRenew]_vars

----------------
(* Properties *)

Lists(e, opt) == \E k \in 1..Len(e) : e[k] = opt

\* C1: after Issuer.UnmarshalText on any spelling of a word, whatever the
\* case of its letters: the aliases of vault, cfssl and aws give no error and
\* set the issuer to that kind; every other word gives an error that lists
\* "vault", "cfssl" and "aws".
C1_IssuerParse ==
    issuerCalled =>
        LET w == issuerIn.word IN
        /\ w \in {W_vault, W_hashicorp} => issuerErr = Nil /\ i = VaultIssuer
        /\ w \in {W_cfssl, W_cloudflare} => issuerErr = Nil /\ i = CFSSLIssuer
        /\ w \in {W_aws, W_amazon, W_acmpca, W_awscmpca} =>
               issuerErr = Nil /\ i = AWSIssuer
        /\ w \notin IssuerAliases =>
               /\ issuerErr # Nil
               /\ \A opt \in {"\"vault\"", "\"cfssl\"", "\"aws\""} :
                      Lists(issuerErr, opt)

C1_Witness ==
    /\ issuerCalled
    /\ issuerIn.text = <<"C","L","O","U","D","F","L","A","R","E">>
    /\ issuerErr = Nil
    /\ i = CFSSLIssuer

\* C2: AuthMethod.UnmarshalText never returns an error: the aliases of the
\* constant and the renewing token map to their kind in any letter case, and
\* every other text sets the value to Unknown whatever it was before.
C2_AuthParse ==
    amCalled =>
        LET w == amIn.word IN
        /\ amErr = Nil
        /\ w \in {W_constant, W_token, W_constant_token} =>
               am = ConstantTokenAuthMethod
        /\ w \in {W_renewing, W_renewing_token} => am = RenewingTokenAuthMethod
        /\ w \notin AuthAliases => am = UnknownAuthMethod

C2_Witness ==
    /\ amCalled
    /\ amBefore = RenewingTokenAuthMethod
    /\ amIn.word \notin AuthAliases
    /\ amErr = Nil
    /\ am = UnknownAuthMethod

\* C3: while no renewal attempt has succeeded, a SetToken call made before
\* the credential's expiry succeeds with that credential and one made after
\* its expiry fails with an authorization error; no call is ever answered
\* "ok" at or after the expiry of the credential it hands out.
C3_ExpiredNeverValid ==
    /\ lastCall.result = "ok" => lastCall.at < lastCall.expiry
    /\ (~everRenewed /\ lastCall.ver > 0) =>
           /\ lastCall.at < lastCall.expiry =>
                  lastCall.result = "ok" /\ lastCall.ver = session.ver
           /\ lastCall.at > lastCall.expiry =>
                  lastCall.result = "AuthorizationError"

C3_Witness ==
    /\ ~everRenewed
    /\ failures >= 2
    /\ lastCall.ver > 0
    /\ lastCall.at > lastCall.expiry
    /\ lastCall.result = "AuthorizationError"

NoComma(s) == \A k \in 1..Len(s) : s[k] # Comma

\* C4 as stated: for every sequence of SAN strings, splitting the encoding on
\* commas gives the sequence back.
C4_Original == "split" \in sansStep => sansBack = sans

\* C4 as amended: for every non-empty sequence of SAN strings none of which
\* contains a comma, splitting the text between the quotes of the encoding on
\* commas gives the same strings in the same order.
C4_RoundTrip ==
    ("split" \in sansStep /\ Len(sans) > 0 /\ \A k \in 1..Len(sans) : NoComma(sans[k]))
        => sansBack = sans

C4_Witness ==
    /\ "split" \in sansStep
    /\ sans = << <<"a">>, <<"b">> >>
    /\ sansBytes = <<Quote, "a", Comma, "b", Quote>>
    /\ sansBack = << <<"a">>, <<"b">> >>

RECURSIVE Numeral(_)
Numeral(n) ==
    IF n < 10 THEN <<Digits[n + 1]>> ELSE Numeral(n \div 10) \o <<Digits[(n % 10) + 1]>>

\* C6: ttl.MarshalJSON never fails and writes a whole-second duration of
\* h >= 1 hours, m minutes and s seconds as the quoted text <h>h<m>m<s>s:
\* 24h as "24h0m0s" and 720h as "720h0m0s".
C6_TtlCanonical ==
    "marshal" \in ttlStep =>
        /\ ttlErr = Nil
        /\ ttlBytes[1] = Quote /\ ttlBytes[Len(ttlBytes)] = Quote
        /\ (~dur.neg /\ dur.nsec = 0 /\ dur.sec >= 3600) =>
               ttlBytes = <<Quote>>
                          \o Numeral(dur.sec \div 3600) \o <<"h">>
                          \o Numeral((dur.sec \div 60) % 60) \o <<"m">>
                          \o Numeral(dur.sec % 60) \o <<"s">>
                          \o <<Quote>>
        /\ dur = [neg |-> FALSE, sec |-> 24 * 3600, nsec |-> 0] =>
               ttlBytes = <<Quote, "2", "4", "h", "0", "m", "0", "s", Quote>>
        /\ dur = [neg |-> FALSE, sec |-> 720 * 3600, nsec |-> 0] =>
               ttlBytes = <<Quote, "7", "2", "0", "h", "0", "m", "0", "s", Quote>>

C6_Witness ==
    /\ "marshal" \in ttlStep
    /\ dur = [neg |-> FALSE, sec |-> 720 * 3600, nsec |-> 0]
    /\ ttlBytes = <<Quote, "7", "2", "0", "h", "0", "m", "0", "s", Quote>>

\* C7: every ConstantToken.SetToken call returns nil; once any call has set
\* the client's token it equals the constant, however the calls interleave;
\* the ConstantToken itself never changes.
C7_ConstantToken ==
    /\ \A g \in Callers : ret[g] \in {"none", "nil"}
    /\ \A g \in Callers : pc[g] = "set" => cliToken = constTok
    /\ everSet => cliToken = constTok
    /\ constTok = constTok0

C7_Witness ==
    /\ constTok = "s.root"
    /\ ret[1] = "nil"
    /\ pc[2] = "set"
    /\ cliToken = "s.root"

C9_FailedParseKeeps ==
    /\ i = lastOk.val
    /\ (issuerCalled /\ ~lastOk.any) => i = VaultIssuer /\ issuerErr # Nil

C9_Witness ==
    /\ issuerCalled
    /\ issuerErr # Nil
    /\ lastOk.any
    /\ i = CFSSLIssuer

\* C10: the bytes otherSans.MarshalJSON returns are exactly one well-formed
\* JSON string literal whose content is the comma-joined elements.
C10_WellFormedJSON ==
    "marshal" \in sansStep =>
        /\ IsJSONString(sansBytes)
        /\ JSONContent(sansBytes) = Join(sans, Comma)

====
